---- MODULE Spec2Model ----
\* Model of routing.KBucket (src/routing/kbucket.go) over node.Node records
\* (src/node/node.go).  The bucket's `nodes` field is a Go slice: a window
\* (array, offset, length, capacity) over a backing array on the heap.  The
\* slice expressions and append calls of Add, Remove and Update are modelled
\* on that representation, so that in-place shifts, the sliding eviction and
\* reallocation are part of the model, as is the slice header that Nodes()
\* hands to its caller.
EXTENDS Integers, Sequences, FiniteSets, TLC

\* ---------------------------------------------------------------- bounds
\* Largest capacity given to NewKBucket (3 is the least capacity with a head,
\* a middle and a tail entry).
MaxKSize == 3
\* Calls made while a reader holds the slice Nodes() returned (SpecReader).
MaxCalls == 4
\* Goroutines that call the bucket concurrently (SpecThreads, SpecAdds).
NumThreads == 3
\* The largest value of KSize, a uint8.
MaxUint8 == 255

Threads == 1..NumThreads
\* Longest address given to NewNode (net.IP is a []byte of any length).
MaxAddrLen == 2
\* Bytes of a NodeID ([20]byte in the code) and bits of a byte (8).
IdLen == 2
ByteBits == 1
\* Longest input given to NewNodeID.
MaxDataLen == 1

\* One identifier more than the largest capacity, so that a full bucket of
\* every capacity can be offered an unknown peer.
IDs == 1..(MaxKSize + 1)

\* Two endpoints at which one identifier can be sighted.
Endpoints == {[address |-> "127.0.0.1", port |-> "8001"],
              [address |-> "127.0.0.2", port |-> "8002"]}

\* node.Node: {id, address, port}; NewNode stores its three arguments.
Peers == {[id |-> i, address |-> e.address, port |-> e.port]
           : i \in IDs, e \in Endpoints}

\* The zero value of a slot of the backing array (a nil node.INode).
Nil == [id |-> 0, address |-> "", port |-> ""]

VARIABLES
  ksize,    \* kb.ksize
  backing,  \* the array kb.nodes points into
  nodes,    \* kb.nodes: slice header [off, len, cap] over `backing`
  snap,     \* the slice header the last Nodes() call returned to the reader
  snapArr,  \* the array that header points into, once it is no longer `backing`
  snapVal,  \* history: the sequence that header denoted when Nodes() returned
  calls,    \* SpecReader: calls made so far
  pre,      \* history: the bucket's entries before the last operation
  last,     \* history: the last operation, its argument and its outcome
  ret,      \* what the last call returned: <<value>>, or <<>> for no value
  seen,     \* history: the present identifiers, least recently seen first
  mu,       \* kb.mu: the goroutine that holds it, 0 when unlocked
  pc,       \* per goroutine: the statement it is at
  loc,      \* per goroutine: the locals of the call it is in
  abs,      \* history: the entries after the calls that took effect so far,
            \* had they run one after the other
  lockOrder, \* history (SpecLockOrder): the goroutines in the order in which
            \* their calls got the mutex
  heap,     \* the bytes of the array the caller's address slice points into
  rec,      \* the *Node that NewNode returned last
  made,     \* history: the arguments of that NewNode call, and its error
  held,     \* whether the caller holds a slice that Address() returned
  nop,      \* the last call on node.Node and what it returned
  sha,      \* crypto/sha1.Sum, as far as NewNodeID uses it
  idc       \* the last call on node.NodeID: its inputs and what it returned

seqVars == <<snap, snapArr, snapVal, calls, pre, last, ret, seen>>

threadVars == <<mu, pc, loc, abs>>

nodeVars == <<heap, rec, made, held, nop>>

idVars == <<sha, idc>>

pureVars == <<nodeVars, idVars>>

bucketVars == <<ksize, backing, nodes, seqVars, threadVars, lockOrder>>

vars == <<ksize, backing, nodes, snap, snapArr, snapVal, calls, pre, last,
          ret, seen, mu, pc, loc, abs, lockOrder, heap, rec, made, held, nop,
          sha, idc>>

\* ------------------------------------------------------- slice primitives
Max(a, b) == IF a >= b THEN a ELSE b

\* The elements a slice header denotes in array arr: s[0], ..., s[len(s)-1].
Elems(arr, s) == [j \in 1..s.len |-> arr[s.off + j]]

\* Mutant of SliceFrom: the length shrinks but the window does not move.
SliceFrom_NoAdvance(s, lo) ==
  [off |-> s.off, len |-> s.len - lo, cap |-> s.cap - lo]

\* s[lo:]
SliceFrom(s, lo) ==
  [off |-> s.off + lo, len |-> s.len - lo, cap |-> s.cap - lo]

\* s[:hi]
SliceTo(s, hi) == [s EXCEPT !.len = hi]

\* Capacities append may give a reallocated array that must hold `needed`
\* elements when the old capacity was oldCap (the growth is the runtime's
\* choice: at least what is needed, at most doubling).
GrowCaps(oldCap, needed) == needed .. Max(needed, 2 * oldCap)

\* append(s, xs...) for a slice s of array arr: in place when the capacity
\* suffices, else into a newly allocated array.  xs is read before anything
\* is written (memmove semantics).  The result is the set of possible
\* outcomes: the array the result points into, its header, and whether that
\* array is a new one.
AppendSlice(arr, s, xs) ==
  LET n == s.len + Len(xs) IN
  IF n <= s.cap
  THEN {[arr |-> [j \in 1..Len(arr) |->
                    IF j > s.off + s.len /\ j <= s.off + n
                    THEN xs[j - s.off - s.len]
                    ELSE arr[j]],
         s |-> [s EXCEPT !.len = n],
         grown |-> FALSE]}
  ELSE {[arr |-> [j \in 1..c |->
                    IF j <= s.len THEN arr[s.off + j]
                    ELSE IF j <= n THEN xs[j - s.len]
                    ELSE Nil],
         s |-> [off |-> 0, len |-> n, cap |-> c],
         grown |-> TRUE]
        : c \in GrowCaps(s.cap, n)}

\* Mutant of DeleteAt: append(s[:i], s[i:]...), which deletes nothing.
DeleteAt_OffByOne(arr, s, i) ==
  AppendSlice(arr, SliceTo(s, i - 1), Elems(arr, SliceFrom(s, i - 1)))

\* append(s[:i], s[i+1:]...) for the element at position i (1-based here).
DeleteAt(arr, s, i) ==
  AppendSlice(arr, SliceTo(s, i - 1), Elems(arr, SliceFrom(s, i)))

\* Mutant of IndexOf: the comparison never succeeds.
IndexOf_Never(es, id) == 0

\* The `for i, n := range kb.nodes { if n.ID().Equals(id) ...` scan: the
\* position of the first entry whose identifier equals id, 0 when none.
IndexOf(es, id) ==
  IF \E j \in 1..Len(es) : es[j].id = id
  THEN CHOOSE j \in 1..Len(es) :
         /\ es[j].id = id
         /\ \A l \in 1..(j - 1) : es[l].id # id
  ELSE 0

\* Mutant of HasRoom: the test always succeeds.
HasRoom_Always(n, k) == TRUE

\* Mutant of HasRoom: `<=` for `<`.
HasRoom_Leq(n, k) == n <= k

\* Mutant of HasRoom: the last free slot is never used.
HasRoom_Early(n, k) == n + 1 < k

\* `len(kb.nodes) < int(kb.ksize)`
HasRoom(n, k) == n < k

\* Mutant of Readded: the stored record is moved, as Update does.
Readded_Stored(newNode, stored) == stored

\* The record Add appends for a known identifier: `newNode`, not the stored
\* record.
Readded(newNode, stored) == newNode

\* Mutant of NodeToMove: kb.nodes[i] read after the shift, which is the
\* entry that followed.
NodeToMove_AfterShift(arr, s, i) ==
  IF i < s.len THEN Elems(arr, s)[i + 1] ELSE Elems(arr, s)[i]

\* The record Update appends: `nodeToMove := kb.nodes[i]`, read before the
\* shift.
NodeToMove(arr, s, i) == Elems(arr, s)[i]

\* Mutant of DropHead: kb.nodes, which evicts nothing.
DropHead_None(s) == s

\* Mutant of DropHead: kb.nodes[:len(kb.nodes)-1], which evicts the tail.
DropHead_Tail(s) == SliceTo(s, s.len - 1)

\* kb.nodes[1:], the slice the eviction appends to.
DropHead(s) == SliceFrom(s, 1)

\* A second append on the results of a first one.
Then(ds, x) ==
  UNION {{[r EXCEPT !.grown = d.grown \/ r.grown]
           : r \in AppendSlice(d.arr, d.s, <<x>>)} : d \in ds}

Ok(rs) == {[arr |-> r.arr, s |-> r.s, grown |-> r.grown, outcome |-> "ok"]
            : r \in rs}

Same(arr, s, outcome) ==
  {[arr |-> arr, s |-> s, grown |-> FALSE, outcome |-> outcome]}

\* ---------------------------------------------------- the three mutators
\* Body of KBucket.Add.
AddOutcomes(arr, s, k, newNode) ==
  LET es == Elems(arr, s)
      i == IndexOf(es, newNode.id)
  IN IF i # 0
     THEN Ok(Then(DeleteAt(arr, s, i), Readded(newNode, es[i])))
     ELSE IF HasRoom(s.len, k)
     THEN Ok(AppendSlice(arr, s, <<newNode>>))
     ELSE IF s.len < 1
     THEN Same(arr, s, "panic")
     ELSE Ok(AppendSlice(arr, DropHead(s), <<newNode>>))

\* Mutant of RemoveOutcomes: the index stays 0 when nothing matches, and the
\* entry at it is deleted all the same.
RemoveOutcomes_HeadWhenAbsent(arr, s, id) ==
  LET i == IndexOf(Elems(arr, s), id)
  IN IF i # 0
     THEN Ok(DeleteAt(arr, s, i))
     ELSE IF s.len > 0
     THEN Ok(DeleteAt(arr, s, 1))
     ELSE Same(arr, s, "ok")

\* Mutant of RemoveOutcomes: kb.nodes = kb.nodes[:i], which also drops every
\* entry after the removed one.
RemoveOutcomes_Truncate(arr, s, id) ==
  LET i == IndexOf(Elems(arr, s), id)
  IN IF i # 0
     THEN Same(arr, SliceTo(s, i - 1), "ok")
     ELSE Same(arr, s, "ok")

\* Body of KBucket.Remove.
RemoveOutcomes(arr, s, id) ==
  LET i == IndexOf(Elems(arr, s), id)
  IN IF i # 0
     THEN Ok(DeleteAt(arr, s, i))
     ELSE Same(arr, s, "ok")

\* Mutant of UpdateOutcomes: the entry found stays where it is.
UpdateOutcomes_NoMove(arr, s, id) == Same(arr, s, "ok")

\* Mutant of UpdateOutcomes: an identifier that is not found is inserted.
UpdateOutcomes_Inserts(arr, s, id) ==
  LET i == IndexOf(Elems(arr, s), id)
  IN IF i # 0
     THEN Ok(Then(DeleteAt(arr, s, i), NodeToMove(arr, s, i)))
     ELSE Ok(AppendSlice(arr, s,
               <<[id |-> id, address |-> "127.0.0.1", port |-> "8001"]>>))

\* Mutant of UpdateOutcomes: the entry is removed and not appended again.
UpdateOutcomes_Drop(arr, s, id) ==
  LET i == IndexOf(Elems(arr, s), id)
  IN IF i # 0
     THEN Ok(DeleteAt(arr, s, i))
     ELSE Same(arr, s, "ok")

\* Body of KBucket.Update.
UpdateOutcomes(arr, s, id) ==
  LET i == IndexOf(Elems(arr, s), id)
  IN IF i # 0
     THEN Ok(Then(DeleteAt(arr, s, i), NodeToMove(arr, s, i)))
     ELSE Same(arr, s, "ok")

\* ------------------------------------------------------------ observers
\* What Nodes() would return now, as a sequence.
Entries == Elems(backing, nodes)

\* KBucket.Size: KSize(len(kb.nodes)), a conversion to uint8.
Size == nodes.len % 256

\* Mutant of KSize: the number of entries is returned.
KSize_Len == nodes.len % 256

\* KBucket.KSize
KSize == ksize

\* Mutant of IsFull: `>` for `>=`.
IsFull_Strict == nodes.len > ksize

\* KBucket.IsFull
IsFull == nodes.len >= ksize

IdsOf(es) == {es[j].id : j \in 1..Len(es)}

\* What the holder of the slice Nodes() returned reads from it now.
SnapView == Elems(IF snap.shared THEN backing ELSE snapArr, snap)

\* --------------------------------------------------------------- actions
NoSnap == [held |-> FALSE, shared |-> FALSE, off |-> 0, len |-> 0, cap |-> 0]

\* The slots of an array that slice header s denotes.
Window(s) == (s.off + 1)..(s.off + s.len)

\* An array as far as the program can observe it: a slot that no slice header
\* denotes (before the window, or between its length and its capacity) is
\* never read by any operation, and is kept at Nil.
Live(arr, keep) == [j \in 1..Len(arr) |-> IF j \in keep THEN arr[j] ELSE Nil]

\* History of sightings.  An identifier is seen by every Add that carries it
\* and by an Update that finds it; `order` lists identifiers by the time they
\* were last seen, oldest first.
Touch(order, id) == Append(SelectSeq(order, LAMBDA x : x # id), id)

\* The order of last sightings after a call, kept for the identifiers the
\* bucket holds afterwards (es).
SeenAfter(order, op, id, known, es) ==
  LET o == IF op = "Add" \/ (op = "Update" /\ known)
           THEN Touch(order, id)
           ELSE order
  IN SelectSeq(o, LAMBDA x : x \in IdsOf(es))

\* The effect of a mutator's outcome r.  When the append moved kb.nodes to a
\* new array, a slice handed out earlier keeps pointing into the old one;
\* otherwise it points into the array the mutator has just written.
Commit(r, op, id, peer) ==
  /\ backing' = Live(r.arr, Window(r.s) \cup
                     (IF snap.shared /\ ~r.grown THEN Window(snap) ELSE {}))
  /\ nodes' = r.s
  /\ snap' = IF r.grown THEN [snap EXCEPT !.shared = FALSE] ELSE snap
  /\ snapArr' = IF r.grown /\ snap.shared
                THEN Live(backing, Window(snap))
                ELSE snapArr
  /\ pre' = Entries
  /\ last' = [op |-> op, id |-> id, peer |-> peer, outcome |-> r.outcome]
  /\ ret' = <<>>
  /\ seen' = SeenAfter(seen, op, id, id \in IdsOf(Entries), Elems(r.arr, r.s))
  /\ UNCHANGED <<ksize, snapVal>>
  /\ UNCHANGED <<threadVars, pureVars, lockOrder>>

NoLoc == [op |-> "", peer |-> Nil, i |-> 0, got |-> <<>>, want |-> <<>>]

\* No *Node: what NewNode returns with an error.
NoRec == [none |-> TRUE, id |-> 0, nil |-> TRUE, len |-> 0, port |-> 0]

NoMade == [id |-> 0, nil |-> TRUE, address |-> <<>>, port |-> 0, err |-> FALSE]

NoCall == [op |-> "", value |-> <<>>]

\* NewKBucket(ksize): make([]node.INode, 0, ksize)
InitWith(caps) ==
  /\ ksize \in caps
  /\ backing = [j \in 1..ksize |-> Nil]
  /\ nodes = [off |-> 0, len |-> 0, cap |-> ksize]
  /\ snap = NoSnap
  /\ snapArr = <<>>
  /\ snapVal = <<>>
  /\ calls = 0
  /\ pre = <<>>
  /\ last = [op |-> "New", id |-> 0, peer |-> Nil, outcome |-> "ok"]
  /\ ret = <<>>
  /\ seen = <<>>
  /\ mu = 0
  /\ pc = [t \in Threads |-> "idle"]
  /\ loc = [t \in Threads |-> NoLoc]
  /\ abs = <<>>
  /\ lockOrder = <<>>
  /\ heap = <<>>
  /\ rec = NoRec
  /\ made = NoMade
  /\ held = FALSE
  /\ nop = NoCall
  /\ idc = NoCall

InitRest == InitWith(0..MaxKSize)

Init == InitRest /\ sha = <<>>

AddBody(newNode) ==
  \E r \in AddOutcomes(backing, nodes, ksize, newNode) :
    Commit(r, "Add", newNode.id, newNode)

RemoveBody(id) ==
  \E r \in RemoveOutcomes(backing, nodes, id) :
    Commit(r, "Remove", id, Nil)

UpdateBody(id) ==
  \E r \in UpdateOutcomes(backing, nodes, id) :
    Commit(r, "Update", id, Nil)

\* Nodes(): `return kb.nodes` hands the caller the bucket's own slice header.
NodesBody ==
  /\ snap' = [held |-> TRUE, shared |-> TRUE,
              off |-> nodes.off, len |-> nodes.len, cap |-> nodes.cap]
  /\ snapArr' = <<>>
  /\ snapVal' = Entries
  /\ pre' = Entries
  /\ last' = [op |-> "Nodes", id |-> 0, peer |-> Nil, outcome |-> "ok"]
  /\ ret' = <<Entries>>
  /\ UNCHANGED <<ksize, backing, nodes, seen>>
  /\ UNCHANGED <<threadVars, pureVars, lockOrder>>

\* The mutators, each holding kb.mu from its first to its last statement.
Add(newNode) == AddBody(newNode) /\ UNCHANGED calls

Remove(id) == RemoveBody(id) /\ UNCHANGED calls

Update(id) == UpdateBody(id) /\ UNCHANGED calls

\* Mutant of Returns: the call empties kb.nodes.
Returns_Truncates(op, value) ==
  /\ ret' = <<value>>
  /\ pre' = Entries
  /\ last' = [op |-> op, id |-> 0, peer |-> Nil, outcome |-> "ok"]
  /\ nodes' = SliceTo(nodes, 0)
  /\ UNCHANGED <<ksize, backing, snap, snapArr, snapVal, calls, seen>>
  /\ UNCHANGED <<threadVars, pureVars, lockOrder>>

\* A call that only reads: it returns value and leaves the bucket alone.
Returns(op, value) ==
  /\ ret' = <<value>>
  /\ pre' = Entries
  /\ last' = [op |-> op, id |-> 0, peer |-> Nil, outcome |-> "ok"]
  /\ UNCHANGED <<ksize, backing, nodes, snap, snapArr, snapVal, calls, seen>>
  /\ UNCHANGED <<threadVars, pureVars, lockOrder>>

\* Size(), IsFull() and KSize() called; Nodes() called by a caller that
\* only looks at the sequence it gets at that moment.
CallSize == Returns("Size", Size)

CallIsFull == Returns("IsFull", IsFull)

CallKSize == Returns("KSize", KSize)

CallNodes == Returns("Nodes", Entries)

Next ==
  \/ \E p \in Peers : Add(p)
  \/ \E id \in IDs : Remove(id)
  \/ \E id \in IDs : Update(id)
  \/ CallSize
  \/ CallIsFull
  \/ CallKSize
  \/ CallNodes

Spec == Init /\ [][Next]_vars

\* The same bucket with a reader that calls Nodes() and keeps what it got
\* while at most MaxCalls calls are made in all.
Counted == calls < MaxCalls /\ calls' = calls + 1

ReaderNodes == Counted /\ NodesBody

WriterAdd(newNode) == Counted /\ AddBody(newNode)

WriterRemove(id) == Counted /\ RemoveBody(id)

WriterUpdate(id) == Counted /\ UpdateBody(id)

NextReader ==
  \/ ReaderNodes
  \/ \E p \in Peers : WriterAdd(p)
  \/ \E id \in IDs : WriterRemove(id)
  \/ \E id \in IDs : WriterUpdate(id)

SpecReader == Init /\ [][NextReader]_vars

\* A bucket of a capacity at either end of KSize's range, filled with peers
\* of fresh identifiers until two of them have been evicted, with Size()
\* and Nodes() called in between.
FillSizes == {0, 1, MaxUint8 - 1, MaxUint8}

FillPeer(n) == [id |-> n, address |-> "127.0.0.1", port |-> "8001"]

FillAdd ==
  /\ calls < ksize + 2
  /\ calls' = calls + 1
  /\ AddBody(FillPeer(calls + 1))

NextFill ==
  \/ FillAdd
  \/ CallSize
  \/ CallNodes

SpecFill == InitWith(FillSizes) /\ sha = <<>> /\ [][NextFill]_vars

\* ------------------------------------------------------------ goroutines
\* The same methods, statement by statement, called by several goroutines.
\* A goroutine is idle, or blocked in kb.mu.Lock() ("lock"), or between Lock
\* and the deferred Unlock: at the range loop or the return expression
\* ("scan"), at the shift of lines 79, 105, 122 ("shift"), at the test of
\* line 86 ("check"), at the append of lines 80, 87, 123 ("append"), at the
\* eviction of line 92 ("evict"), or at the deferred kb.mu.Unlock()
\* ("unlock").  A goroutine whose call panicked stays "panicked": the panic
\* unwinds it.  Which method a blocked caller is in, and its argument, are
\* fixed when it proceeds: nothing reads them earlier.
Methods == {"Add", "Remove", "Update", "Nodes", "Size", "IsFull"}

InCall == {"scan", "shift", "check", "append", "evict", "unlock"}

\* Mutant of CanLock: Size, IsFull and Nodes do not wait for the mutex.
CanLock_ReadersSkip(m, op) == m = 0 \/ op \in {"Nodes", "Size", "IsFull"}

\* Mutant of CanLock: Add, Remove and Update do not wait for the mutex.
CanLock_WritersSkip(m, op) == m = 0 \/ op \in {"Add", "Remove", "Update"}

\* Mutant of CanLock: Lock never waits.
CanLock_Always(m, op) == TRUE

\* kb.mu.Lock() proceeds only when the mutex is unlocked.
CanLock(m, op) == m = 0

\* The deferred kb.mu.Unlock().
UnlockMu(m, t) == 0

\* The state of a bucket that holds es, as one array filled to its length.
Hdr(es) == [off |-> 0, len |-> Len(es), cap |-> Len(es)]

\* The entries and the outcome a whole call gives when it runs alone.
Alone(rs) == {[es |-> Elems(r.arr, r.s), out |-> r.outcome] : r \in rs}

\* What Size(), IsFull() and Nodes() return on entries es with capacity k.
ReadValue(op, es, k) ==
  CASE op = "Size" -> Len(es) % 256
    [] op = "IsFull" -> Len(es) >= k
    [] op = "Nodes" -> es

\* A statement's write to kb.nodes.
Store(r) ==
  /\ backing' = Live(r.arr, Window(r.s))
  /\ nodes' = r.s

Goto(t, label) == pc' = [pc EXCEPT ![t] = label]

\* A goroutine calls a method of the bucket and reaches kb.mu.Lock().
TCall(t) ==
  /\ pc[t] = "idle"
  /\ Goto(t, "lock")
  /\ UNCHANGED <<ksize, backing, nodes, mu, loc, abs>>
  /\ UNCHANGED <<seqVars, pureVars, lockOrder>>

\* kb.mu.Lock() returns in method op.
LockBody(t, op) ==
  /\ pc[t] = "lock"
  /\ CanLock(mu, op)
  /\ mu' = t
  /\ loc' = [loc EXCEPT ![t] = [NoLoc EXCEPT !.op = op]]
  /\ Goto(t, "scan")
  /\ UNCHANGED <<ksize, backing, nodes, abs>>
  /\ UNCHANGED <<seqVars, pureVars>>

TLock(t, op) == LockBody(t, op) /\ UNCHANGED lockOrder

\* Add: the range loop of lines 76-83 up to its match, or to its end.
TScanAdd(t, newNode) ==
  /\ pc[t] = "scan" /\ loc[t].op = "Add"
  /\ LET i == IndexOf(Entries, newNode.id) IN
     \E q \in Alone(AddOutcomes(abs, Hdr(abs), ksize, newNode)) :
       /\ abs' = q.es
       /\ loc' = [loc EXCEPT ![t] =
                    [op |-> "Add",
                     peer |-> IF i # 0 THEN Readded(newNode, Entries[i])
                              ELSE newNode,
                     i |-> i, got |-> <<"ok">>, want |-> <<q.out>>]]
       /\ Goto(t, IF i # 0 THEN "shift" ELSE "check")
  /\ UNCHANGED <<ksize, backing, nodes, mu>>
  /\ UNCHANGED <<seqVars, pureVars, lockOrder>>

\* Remove: the range loop of lines 102-108.
TScanRemove(t, id) ==
  /\ pc[t] = "scan" /\ loc[t].op = "Remove"
  /\ LET i == IndexOf(Entries, id) IN
     \E q \in Alone(RemoveOutcomes(abs, Hdr(abs), id)) :
       /\ abs' = q.es
       /\ loc' = [loc EXCEPT ![t] =
                    [op |-> "Remove", peer |-> Nil, i |-> i,
                     got |-> <<"ok">>, want |-> <<q.out>>]]
       /\ Goto(t, IF i # 0 THEN "shift" ELSE "unlock")
  /\ UNCHANGED <<ksize, backing, nodes, mu>>
  /\ UNCHANGED <<seqVars, pureVars, lockOrder>>

\* Update: the range loop of lines 118-126, and line 121 on a match.
TScanUpdate(t, id) ==
  /\ pc[t] = "scan" /\ loc[t].op = "Update"
  /\ LET i == IndexOf(Entries, id) IN
     \E q \in Alone(UpdateOutcomes(abs, Hdr(abs), id)) :
       /\ abs' = q.es
       /\ loc' = [loc EXCEPT ![t] =
                    [op |-> "Update",
                     peer |-> IF i # 0 THEN NodeToMove(backing, nodes, i)
                              ELSE Nil,
                     i |-> i, got |-> <<"ok">>, want |-> <<q.out>>]]
       /\ Goto(t, IF i # 0 THEN "shift" ELSE "unlock")
  /\ UNCHANGED <<ksize, backing, nodes, mu>>
  /\ UNCHANGED <<seqVars, pureVars, lockOrder>>

\* Nodes, Size, IsFull: the return expression, read from kb.nodes.
TRead(t) ==
  /\ pc[t] = "scan" /\ loc[t].op \in {"Nodes", "Size", "IsFull"}
  /\ loc' = [loc EXCEPT ![t].got = <<ReadValue(loc[t].op, Entries, ksize)>>,
                        ![t].want = <<ReadValue(loc[t].op, abs, ksize)>>]
  /\ Goto(t, "unlock")
  /\ UNCHANGED <<ksize, backing, nodes, mu, abs>>
  /\ UNCHANGED <<seqVars, pureVars, lockOrder>>

\* kb.nodes = append(kb.nodes[:i], kb.nodes[i+1:]...) at lines 79, 105, 122.
\* (An index beyond the slice makes the slice expression panic.)
TShift(t) ==
  /\ pc[t] = "shift"
  /\ IF loc[t].i <= nodes.len
     THEN /\ \E r \in DeleteAt(backing, nodes, loc[t].i) : Store(r)
          /\ Goto(t, IF loc[t].op = "Remove" THEN "unlock" ELSE "append")
          /\ UNCHANGED loc
     ELSE /\ loc' = [loc EXCEPT ![t].got = <<"panic">>]
          /\ Goto(t, "unlock")
          /\ UNCHANGED <<backing, nodes>>
  /\ UNCHANGED <<ksize, mu, abs>>
  /\ UNCHANGED <<seqVars, pureVars, lockOrder>>

\* `if len(kb.nodes) < int(kb.ksize)` at line 86.
TCheck(t) ==
  /\ pc[t] = "check"
  /\ Goto(t, IF HasRoom(nodes.len, ksize) THEN "append" ELSE "evict")
  /\ UNCHANGED <<ksize, backing, nodes, mu, loc, abs>>
  /\ UNCHANGED <<seqVars, pureVars, lockOrder>>

\* kb.nodes = append(kb.nodes, ...) at lines 80, 87, 123.
TAppend(t) ==
  /\ pc[t] = "append"
  /\ \E r \in AppendSlice(backing, nodes, <<loc[t].peer>>) : Store(r)
  /\ Goto(t, "unlock")
  /\ UNCHANGED <<ksize, mu, loc, abs>>
  /\ UNCHANGED <<seqVars, pureVars, lockOrder>>

\* kb.nodes = append(kb.nodes[1:], newNode) at line 92.
TEvict(t) ==
  /\ pc[t] = "evict"
  /\ IF nodes.len < 1
     THEN /\ loc' = [loc EXCEPT ![t].got = <<"panic">>]
          /\ UNCHANGED <<backing, nodes>>
     ELSE /\ \E r \in AppendSlice(backing, DropHead(nodes), <<loc[t].peer>>) :
               Store(r)
          /\ UNCHANGED loc
  /\ Goto(t, "unlock")
  /\ UNCHANGED <<ksize, mu, abs>>
  /\ UNCHANGED <<seqVars, pureVars, lockOrder>>

Panicked(t) ==
  loc[t].op \in {"Add", "Remove", "Update"} /\ loc[t].got = <<"panic">>

\* The deferred kb.mu.Unlock() runs and the call ends.
UnlockTo(t, label) ==
  /\ pc[t] = "unlock"
  /\ mu' = UnlockMu(mu, t)
  /\ loc' = [loc EXCEPT ![t] = NoLoc]
  /\ Goto(t, label)
  /\ UNCHANGED <<ksize, backing, nodes, abs>>
  /\ UNCHANGED <<seqVars, pureVars, lockOrder>>

\* The call returns to its caller.
TUnlock(t) == ~Panicked(t) /\ UnlockTo(t, "idle")

\* The call ends by the panic of line 92: the deferred Unlock runs, the call
\* does not return.
TPanic(t) == Panicked(t) /\ UnlockTo(t, "panicked")

\* The statements of a call between Lock and the end of the call.
TBody(t) ==
  \/ \E p \in Peers : TScanAdd(t, p)
  \/ \E id \in IDs : TScanRemove(t, id)
  \/ \E id \in IDs : TScanUpdate(t, id)
  \/ TRead(t)
  \/ TShift(t)
  \/ TCheck(t)
  \/ TAppend(t)
  \/ TEvict(t)
  \/ TUnlock(t)
  \/ TPanic(t)

NextThreads ==
  \E t \in Threads :
    \/ TCall(t)
    \/ \E op \in Methods : TLock(t, op)
    \/ TBody(t)

SpecThreads == Init /\ [][NextThreads]_vars

\* The scheduler runs every goroutine that can run, and a goroutine blocked
\* in Lock gets the mutex once it has been released often enough (sync.Mutex
\* hands it to a waiter that has waited too long).
FairThreads ==
  \A t \in Threads :
    /\ WF_vars(TBody(t))
    /\ SF_vars(\E op \in Methods : TLock(t, op))

SpecThreadsFair == SpecThreads /\ FairThreads

\* NumThreads goroutines that each call Add once, goroutine t with the peer
\* of identifier t, on an empty bucket of a capacity below NumThreads.
PeerOf(t) == [id |-> t, address |-> "127.0.0.1", port |-> "8001"]

InitAdds == Init /\ ksize < NumThreads

AddsReturn(t) == ~Panicked(t) /\ UnlockTo(t, "done")

NextAdds ==
  \E t \in Threads :
    \/ TCall(t)
    \/ TLock(t, "Add")
    \/ TScanAdd(t, PeerOf(t))
    \/ TCheck(t)
    \/ TAppend(t)
    \/ TEvict(t)
    \/ AddsReturn(t)
    \/ TPanic(t)

SpecAdds == InitAdds /\ [][NextAdds]_vars

\* The same goroutines on an empty bucket of any capacity, with the order
\* in which their calls get the mutex on record.
AddsLock(t) == LockBody(t, "Add") /\ lockOrder' = Append(lockOrder, t)

NextLockOrder ==
  \E t \in Threads :
    \/ TCall(t)
    \/ AddsLock(t)
    \/ TScanAdd(t, PeerOf(t))
    \/ TCheck(t)
    \/ TAppend(t)
    \/ TEvict(t)
    \/ AddsReturn(t)
    \/ TPanic(t)

SpecLockOrder == Init /\ [][NextLockOrder]_vars

\* ------------------------------------------------------------ node.Node
\* NewNode and the getters of *Node, with a caller that keeps the address
\* slice it passed to NewNode and the one Address() returns.  A net.IP is a
\* byte slice: nil, or a header over an array of bytes on the heap.
AddrBytes == {0, 1}

Ports == {0, 65535}

ByteSeqs(n) == UNION {[1..l -> AddrBytes] : l \in 0..n}

\* The address arguments: the nil slice, and slices of 0..MaxAddrLen bytes.
IPs == {[nil |-> TRUE, bytes |-> <<>>]}
         \cup {[nil |-> FALSE, bytes |-> b] : b \in ByteSeqs(MaxAddrLen)}

\* Mutant of Invalid: only the nil slice is rejected.
Invalid_NilOnly(address) == address.nil

\* `len(address) == 0 || address == nil`
Invalid(address) == Len(address.bytes) = 0 \/ address.nil

\* n.ID()
ID(n) == n.id

\* n.Address(): `return n.address`, the slice header NewNode stored, read
\* over the array h it points into.
Address(n, h) == SubSeq(h, 1, n.len)

\* n.Port()
Port(n) == n.port

\* NewNode(id, address, port): the record keeps the slice header it was
\* given, not a copy of the bytes.
NewNode(id, address, port) ==
  /\ heap' = address.bytes
  /\ rec' = IF Invalid(address)
            THEN NoRec
            ELSE [none |-> FALSE, id |-> id, nil |-> address.nil,
                  len |-> Len(address.bytes), port |-> port]
  /\ made' = [id |-> id, nil |-> address.nil, address |-> address.bytes,
              port |-> port, err |-> Invalid(address)]
  /\ held' = FALSE
  /\ nop' = [op |-> "NewNode", value |-> <<>>]
  /\ UNCHANGED <<bucketVars, idVars>>

Getter(op, value) ==
  /\ ~rec.none
  /\ nop' = [op |-> op, value |-> <<value>>]
  /\ UNCHANGED <<heap, rec, made>>
  /\ UNCHANGED <<bucketVars, idVars>>

CallID == Getter("ID", ID(rec)) /\ UNCHANGED held

CallAddress == Getter("Address", Address(rec, heap)) /\ held' = TRUE

CallPort == Getter("Port", Port(rec)) /\ UNCHANGED held

\* The caller writes a byte through a slice it holds.
Write(op, i, b) ==
  /\ i \in 1..Len(heap)
  /\ heap' = [heap EXCEPT ![i] = b]
  /\ nop' = [op |-> op, value |-> <<>>]
  /\ UNCHANGED <<rec, made, held>>
  /\ UNCHANGED <<bucketVars, idVars>>

\* address[i] = b on the slice that was passed to NewNode.
WriteArg(i, b) == ~made.nil /\ Write("WriteArg", i, b)

\* got[i] = b on the slice that Address() returned.
WriteGot(i, b) == held /\ ~rec.none /\ i <= rec.len /\ Write("WriteGot", i, b)

NextNode ==
  \/ \E id \in IDs, address \in IPs, port \in Ports : NewNode(id, address, port)
  \/ CallID
  \/ CallAddress
  \/ CallPort
  \/ \E i \in 1..MaxAddrLen, b \in AddrBytes : WriteArg(i, b)
  \/ \E i \in 1..MaxAddrLen, b \in AddrBytes : WriteGot(i, b)

SpecNode == Init /\ [][NextNode]_vars

\* ---------------------------------------------------------- node.NodeID
\* NodeID is an array of IdLen bytes of ByteBits bits.
Bytes == 0..(2^ByteBits - 1)

NodeIDs == [1..IdLen -> Bytes]

\* NodeID{}, the zero value.
Zero == [i \in 1..IdLen |-> 0]

\* x ^ y on bytes, bit by bit from the lowest.
RECURSIVE BitXor(_, _, _)
BitXor(x, y, w) ==
  IF w = 0 THEN 0
  ELSE ((x + y) % 2) + 2 * BitXor(x \div 2, y \div 2, w - 1)

\* x & y on bytes.
RECURSIVE BitAnd(_, _, _)
BitAnd(x, y, w) ==
  IF w = 0 THEN 0
  ELSE ((x % 2) * (y % 2)) + 2 * BitAnd(x \div 2, y \div 2, w - 1)

\* Mutant of XOR: `&` for `^`.
XOR_And(id, other) == [i \in 1..IdLen |-> BitAnd(id[i], other[i], ByteBits)]

\* Mutant of XOR: the loop ends after the first byte.
XOR_FirstByte(id, other) ==
  [i \in 1..IdLen |-> IF i = 1 THEN BitXor(id[i], other[i], ByteBits) ELSE 0]

\* x | y on bytes.
RECURSIVE BitOr(_, _, _)
BitOr(x, y, w) ==
  IF w = 0 THEN 0
  ELSE (IF (x % 2) + (y % 2) > 0 THEN 1 ELSE 0)
         + 2 * BitOr(x \div 2, y \div 2, w - 1)

\* Mutant of XOR: `|` for `^`.
XOR_Or(id, other) == [i \in 1..IdLen |-> BitOr(id[i], other[i], ByteBits)]

\* id.XOR(other): result[i] = id[i] ^ other[i] for every byte.
XOR(id, other) == [i \in 1..IdLen |-> BitXor(id[i], other[i], ByteBits)]

\* id.Equals(other): `id == other` on arrays.
Equals(id, other) == id = other

\* n.Distance(other): n.id.XOR(other.ID())
Distance(n, other) == XOR(n.id, ID(other))

\* Records with every identifier, at the two endpoints.
NodePeers == {[id |-> i, address |-> e.address, port |-> e.port]
               : i \in NodeIDs, e \in Endpoints}

Answer(call) ==
  /\ idc' = call
  /\ UNCHANGED <<bucketVars, nodeVars, sha>>

CallXOR(a, b) ==
  Answer([op |-> "XOR", a |-> a, b |-> b, value |-> <<XOR(a, b)>>])

CallEquals(a, b) ==
  Answer([op |-> "Equals", a |-> a, b |-> b, value |-> <<Equals(a, b)>>])

CallDistance(n, m) ==
  Answer([op |-> "Distance", n |-> n, m |-> m, value |-> <<Distance(n, m)>>])

\* One call is looked at in each behaviour: the methods have no state, so
\* what a call returns does not depend on the calls made before it.
NextXOR ==
  /\ idc.op = ""
  /\ \/ \E a, b \in NodeIDs : CallXOR(a, b)
     \/ \E a, b \in NodeIDs : CallEquals(a, b)
     \/ \E n, m \in NodePeers : CallDistance(n, m)

SpecXOR == Init /\ [][NextXOR]_vars

\* The three distances between three identifiers.
CallXOR3(a, b, c) ==
  Answer([op |-> "XOR3", a |-> a, b |-> b, c |-> c,
          ab |-> XOR(a, b), bc |-> XOR(b, c), ac |-> XOR(a, c)])

NextTriangle == idc.op = "" /\ \E a, b, c \in NodeIDs : CallXOR3(a, b, c)

SpecTriangle == Init /\ [][NextTriangle]_vars

\* NewNodeID.  sha1.Sum is a function of the standard library: which
\* function it is, is fixed before the first call (any function from the
\* inputs to three sample digests, one of them the zero value).
Datas == UNION {[1..l -> AddrBytes] : l \in 0..MaxDataLen}

Digests == {Zero, [i \in 1..IdLen |-> 1],
            [i \in 1..IdLen |-> IF i = 1 THEN 1 ELSE 0]}

\* Mutant of NewNodeID: inputs of one byte are rejected as well.
NewNodeID_RejectsShort(sum, data) ==
  IF Len(data) <= 1
  THEN [id |-> Zero, err |-> TRUE]
  ELSE [id |-> sum[data], err |-> FALSE]

\* NewNodeID(data), with sum for sha1.Sum.
NewNodeID(sum, data) ==
  IF Len(data) = 0
  THEN [id |-> Zero, err |-> TRUE]
  ELSE [id |-> sum[data], err |-> FALSE]

\* A call of NewNodeID; the call before it is kept for comparison.
CallNewNodeID(data) ==
  /\ idc' = [op |-> "NewNodeID", data |-> data,
             value |-> <<NewNodeID(sha, data)>>,
             before |-> IF idc.op = "NewNodeID"
                        THEN <<[data |-> idc.data, value |-> idc.value]>>
                        ELSE <<>>]
  /\ UNCHANGED <<bucketVars, nodeVars, sha>>

NextHash == \E data \in Datas : CallNewNodeID(data)

InitHash ==
  /\ InitRest
  /\ ksize = 0
  /\ sha \in [Datas \ {<<>>} -> Digests]

SpecHash == InitHash /\ [][NextHash]_vars

\* ---------------------------------------------------------------- claims
\* The entries of es without those whose identifier is id, in order.
Without(es, id) == SelectSeq(es, LAMBDA e : e.id # id)

\* The record es holds for identifier id.
RecordOf(es, id) == CHOOSE e \in {es[j] : j \in 1..Len(es)} : e.id = id

\* The position of identifier id in es.
PositionOf(es, id) == CHOOSE j \in 1..Len(es) : es[j].id = id

Tail1(es) == SubSeq(es, 2, Len(es))

Front(es) == SubSeq(es, 1, Len(es) - 1)

Did(op) == last.op = op /\ last.outcome = "ok"

Known == last.id \in IdsOf(pre)

\* C1: in every reachable state 0 <= Size() <= KSize().
C1_SizeBound == 0 <= Size /\ Size <= KSize /\ Len(Entries) <= ksize

\* C1 witness: an Add of an unknown peer has just acted on a full bucket of
\* the largest capacity, and the bucket is still exactly full.
C1_Witness ==
  /\ Did("Add") /\ ~Known
  /\ ksize = MaxKSize /\ Len(pre) = ksize /\ Size = KSize

\* C2: Nodes() never contains two records with equal identifiers.
C2_Unique ==
  \A i, j \in 1..Len(Entries) : Entries[i].id = Entries[j].id => i = j

\* C2 witness: Add has just been called with a record that differs from the
\* stored one but carries its identifier, in a bucket of several entries.
C2_Witness ==
  /\ Did("Add") /\ Known
  /\ RecordOf(pre, last.id) # last.peer
  /\ Len(Entries) >= 2

\* C3 (as claimed): what the holder of the slice returned by Nodes() reads
\* from it is always the sequence it denoted when Nodes() returned.
C3_SnapshotStable == snap.held => SnapView = snapVal

\* C4 (as claimed): after Add(p) with p's identifier already present, the
\* entry held for that identifier has the address and port it had before.
C4_AddKeepsStoredEndpoint ==
  (Did("Add") /\ Known) =>
     /\ RecordOf(Entries, last.id).address = RecordOf(pre, last.id).address
     /\ RecordOf(Entries, last.id).port = RecordOf(pre, last.id).port

\* C4 (amended): after Add(p) with p's identifier already present, the entry
\* held for that identifier is p: it has p's address and port, and it is the
\* only entry with that identifier.
C4_AddStoresNewRecord ==
  (Did("Add") /\ Known) =>
     /\ last.id \in IdsOf(Entries)
     /\ \A j \in 1..Len(Entries) :
          Entries[j].id = last.id => Entries[j] = last.peer

\* C4 witness: Add(p) has acted on a bucket that held p's identifier at
\* another address and port.
C4_Witness ==
  /\ Did("Add") /\ Known
  /\ RecordOf(pre, last.id).address # last.peer.address
  /\ RecordOf(pre, last.id).port # last.peer.port

\* C5: after Add(p) with p's identifier already present, that identifier is
\* last in Nodes(), Size() is unchanged, nothing is evicted and the other
\* entries keep their relative order.
C5_ReAddMovesToTail ==
  (Did("Add") /\ Known) =>
     /\ Len(Entries) = Len(pre)
     /\ Entries[Len(Entries)].id = last.id
     /\ IdsOf(Entries) = IdsOf(pre)
     /\ Front(Entries) = Without(pre, last.id)

\* C5 witness: the identifier re-added was in the middle of a full bucket.
C5_Witness ==
  /\ Did("Add") /\ Known
  /\ Len(pre) = ksize /\ Len(pre) >= 3
  /\ PositionOf(pre, last.id) \notin {1, Len(pre)}

\* C6 (as claimed): after Add(p) of an unknown identifier on a full bucket,
\* the bucket holds the previous entries without the head, followed by p.
C6_EvictsHead ==
  (last.op = "Add" /\ ~Known /\ Len(pre) = ksize) =>
     Entries = Append(Tail1(pre), last.peer)

\* The same for buckets of capacity at least 1, where it holds: the failure
\* of C6 is confined to capacity 0.
EvictsHeadWhenPositive ==
  (last.op = "Add" /\ ~Known /\ Len(pre) = ksize /\ ksize >= 1) =>
     /\ last.outcome = "ok"
     /\ Entries = Append(Tail1(pre), last.peer)

\* C7: after Add(p) of an unknown identifier with Size() < capacity, Nodes()
\* is the previous sequence followed by p.
C7_AppendWhenRoom ==
  (last.op = "Add" /\ ~Known /\ Len(pre) < ksize) =>
     /\ last.outcome = "ok"
     /\ Entries = Append(pre, last.peer)
     /\ Size = Len(pre) + 1

\* C7 witness: an unknown peer has been added to the last free slot of a
\* bucket of the largest capacity.
C7_Witness ==
  /\ Did("Add") /\ ~Known
  /\ ksize = MaxKSize /\ Len(pre) = ksize - 1

\* C8: Remove(id) of a present identifier removes exactly that entry and
\* keeps the order of the others; of an absent one it changes nothing; it
\* raises no error.
C8_RemoveEffect ==
  last.op = "Remove" =>
     /\ last.outcome = "ok"
     /\ IF Known
        THEN /\ Entries = Without(pre, last.id)
             /\ Len(Entries) = Len(pre) - 1
             /\ last.id \notin IdsOf(Entries)
        ELSE Entries = pre

\* C8 witness: the head of a bucket of three entries has been removed.
C8_Witness ==
  /\ Did("Remove") /\ Known
  /\ Len(pre) >= 3 /\ PositionOf(pre, last.id) = 1

\* C9: Update(id) of a present identifier makes it the last entry, with
\* Size(), the identifiers and the order of the others unchanged; of an
\* absent one it changes nothing.
C9_UpdateEffect ==
  last.op = "Update" =>
     /\ last.outcome = "ok"
     /\ IF Known
        THEN /\ Len(Entries) = Len(pre)
             /\ Entries[Len(Entries)].id = last.id
             /\ IdsOf(Entries) = IdsOf(pre)
             /\ Front(Entries) = Without(pre, last.id)
        ELSE Entries = pre

\* C9 witness: the head of a bucket of three entries has been updated.
C9_Witness ==
  /\ Did("Update") /\ Known
  /\ Len(pre) >= 3 /\ PositionOf(pre, last.id) = 1

\* C10: after Update(id) of a present identifier, the record at the tail is
\* the record (identifier, address, port) that was stored before the call.
C10_UpdateKeepsRecord ==
  (Did("Update") /\ Known) =>
     /\ Entries # <<>>
     /\ Entries[Len(Entries)] = RecordOf(pre, last.id)

\* C10 witness: an entry that was not the tail has been updated in a bucket
\* that holds the same address and port under another identifier too.
C10_Witness ==
  /\ Did("Update") /\ Known
  /\ PositionOf(pre, last.id) < Len(pre)
  /\ \E j \in 1..Len(pre) :
       /\ pre[j].id # last.id
       /\ pre[j].address # RecordOf(pre, last.id).address
\* C14 (as claimed): every call of Add, Remove, Update, Nodes, Size and
\* IsFull on a bucket NewKBucket returned completes normally.
C14_Total == last.outcome = "ok"

\* C15 (as claimed): every bucket NewKBucket returns has KSize() > 0.
C15_PositiveCapacity == KSize > 0

\* C16: the identifiers of Nodes() are in the order in which they were last
\* seen (by an Add, or by an Update while present), oldest first.
C16_RecencyOrder == [j \in 1..Len(Entries) |-> Entries[j].id] = seen

\* C16 witness: Update has moved the middle entry of three, so that the
\* order of sightings is no longer the order of insertion.
C16_Witness ==
  /\ Did("Update") /\ Known
  /\ Len(pre) >= 3 /\ PositionOf(pre, last.id) = 2
  /\ Len(seen) >= 3

\* C17: an identifier that was absent before a call and is present after it
\* is the identifier of the peer given to that call, and the call is Add.
C17_AppearsOnlyByAdd ==
  \A id \in IdsOf(Entries) \ IdsOf(pre) : last.op = "Add" /\ last.id = id

\* C17 witness: an Update and a Remove of an absent identifier, and the
\* reading calls, are among the calls made; here Add has just made an
\* identifier present in a bucket that held others.
C17_Witness ==
  /\ Did("Add") /\ ~Known
  /\ IdsOf(Entries) \ IdsOf(pre) = {last.id}
  /\ Len(pre) >= 1

\* C18: an identifier that was present before a call and is absent after it
\* is the one given to Remove, or was the head of a full bucket when Add was
\* given an unknown identifier.
C18_DisappearsOnlyByRemoveOrEviction ==
  \A id \in IdsOf(pre) \ IdsOf(Entries) :
     \/ last.op = "Remove" /\ last.id = id
     \/ /\ last.op = "Add" /\ ~Known
        /\ Len(pre) = ksize /\ pre[1].id = id

\* C18 witness: Add has evicted the head of a full bucket of several entries.
C18_Witness ==
  /\ Did("Add") /\ ~Known
  /\ Len(pre) = ksize /\ ksize >= 2
  /\ pre[1].id \notin IdsOf(Entries)

\* C19: in the state Remove(id) leaves, a second Remove(id) changes nothing.
C19_RemoveIdempotent ==
  last.op = "Remove" =>
     \A r \in RemoveOutcomes(backing, nodes, last.id) :
        r.outcome = "ok" /\ Elems(r.arr, r.s) = Entries

\* C19 witness: the first Remove took the middle entry out of three.
C19_Witness ==
  /\ Did("Remove") /\ Known
  /\ Len(pre) = 3 /\ PositionOf(pre, last.id) = 2
  /\ Len(Entries) = 2

\* C11: once NumThreads goroutines have each returned from one Add of a peer
\* of its own identifier, on an empty bucket of a capacity below NumThreads,
\* the bucket holds exactly ksize entries, of pairwise distinct identifiers,
\* each of them one of the peers that were added.
AllDone == \A t \in Threads : pc[t] = "done"

C11_ConcurrentAdds ==
  AllDone =>
    /\ Len(Entries) = ksize
    /\ \A i, j \in 1..Len(Entries) : Entries[i].id = Entries[j].id => i = j
    /\ \A j \in 1..Len(Entries) : Entries[j] \in {PeerOf(t) : t \in Threads}

C11_Witness == AllDone /\ ksize = NumThreads - 1 /\ Len(Entries) = ksize

\* C12: a goroutine is between Lock and Unlock of a method only while it
\* holds the mutex, every access to kb.nodes is made there, and no two
\* goroutines are there at once.
C12_MutualExclusion ==
  /\ \A t \in Threads : pc[t] \in InCall => mu = t
  /\ \A t, u \in Threads : pc[t] \in InCall /\ pc[u] \in InCall => t = u

C12_Witness ==
  \E t, u \in Threads :
    /\ t # u
    /\ pc[t] = "append" /\ loc[t].op = "Update" /\ mu = t
    /\ pc[u] = "lock"

\* C13: every call takes effect at one point between its Lock and its
\* Unlock: what it returns, or its panic, is what the call gives when run
\* alone at that point on the entries left by the calls that took effect
\* before it, and whenever no call is between its first and its last write
\* the entries are those the calls give when run one after the other.
Writing == {"shift", "check", "append", "evict"}

C13_Linearizable ==
  /\ (\A t \in Threads : pc[t] \notin Writing) => Entries = abs
  /\ \A t \in Threads : pc[t] = "unlock" => loc[t].got = loc[t].want

C13_Witness ==
  \E t, u \in Threads :
    /\ t # u
    /\ pc[t] = "unlock" /\ loc[t].op = "Size" /\ loc[t].got = <<2>>
    /\ pc[u] = "lock"
    /\ Len(abs) = 2

\* C20: under a fair scheduler every call that has reached Lock returns to
\* its caller.
C20_EveryCallReturns ==
  \A t \in Threads : (pc[t] = "lock") ~> (pc[t] = "idle")

\* Every call ends, by a return or by a panic, and the mutex is unlocked
\* whenever no call is between Lock and Unlock.
EveryCallEnds ==
  /\ [](mu = 0 <=> \A t \in Threads : pc[t] \notin InCall)
  /\ \A t \in Threads : (pc[t] = "lock") ~> (pc[t] \in {"idle", "panicked"})

\* On a bucket of positive capacity every call returns.
ReturnsWhenPositive == ksize > 0 => C20_EveryCallReturns

\* C21: IsFull() is true exactly when Size() >= KSize(), which is exactly
\* when Size() = KSize(); and that is what a call of IsFull() returns.
C21_IsFullAgreesWithSize ==
  /\ IsFull <=> Size >= KSize
  /\ IsFull <=> Size = KSize
  /\ last.op = "IsFull" => ret = <<Size >= KSize>>

C21_Witness ==
  last.op = "IsFull" /\ ret = <<TRUE>> /\ Size = KSize /\ KSize >= 2

\* C22: no step changes what KSize() returns, so it stays the value given
\* to NewKBucket; a call of KSize() returns it.
C22_FixedCapacity ==
  /\ [][KSize' = KSize]_vars
  /\ [](last.op = "KSize" => ret = <<KSize>>)

C22_Witness ==
  last.op = "KSize" /\ ret = <<KSize>> /\ KSize >= 2 /\ Len(Entries) = KSize

\* C28: a step that is a call of Nodes(), Size(), IsFull() or KSize()
\* leaves the entries, their order and the capacity as they were.
ReadOps == {"Nodes", "Size", "IsFull", "KSize"}

C28_ReadOnly ==
  [][last'.op \in ReadOps =>
       /\ Entries' = Entries
       /\ KSize' = KSize
       /\ Len(Entries') <= KSize']_vars

C28_Witness ==
  last.op = "Nodes" /\ ret = <<Entries>> /\ pre = Entries /\ Len(Entries) >= 2

\* The abstract list: delete-at-i, append, drop-head on plain sequences.
AbsDeleteAt(es, i) == SubSeq(es, 1, i - 1) \o SubSeq(es, i + 1, Len(es))

AbsAdd(es, k, p) ==
  LET i == IndexOf(es, p.id)
  IN IF i # 0 THEN Append(AbsDeleteAt(es, i), p)
     ELSE IF Len(es) < k THEN Append(es, p)
     ELSE Append(SubSeq(es, 2, Len(es)), p)

AbsRemove(es, id) ==
  LET i == IndexOf(es, id) IN IF i # 0 THEN AbsDeleteAt(es, i) ELSE es

AbsUpdate(es, id) ==
  LET i == IndexOf(es, id)
  IN IF i # 0 THEN Append(AbsDeleteAt(es, i), es[i]) ELSE es

\* C29: the window of kb.nodes lies inside its array, and after every Add,
\* Remove and Update that returns, the entries it denotes are those of the
\* abstract list operation applied to the entries before the call; a call
\* that panics leaves them as they were.
C29_SliceRefinesList ==
  /\ nodes.off >= 0 /\ nodes.len >= 0 /\ nodes.len <= nodes.cap
  /\ nodes.off + nodes.cap <= Len(backing)
  /\ Did("Add") => Entries = AbsAdd(pre, ksize, last.peer)
  /\ Did("Remove") => Entries = AbsRemove(pre, last.id)
  /\ Did("Update") => Entries = AbsUpdate(pre, last.id)
  /\ last.outcome = "panic" => Entries = pre

\* C29 witness: an eviction has been made in place, in a window that no
\* longer starts at the head of its array.
C29_Witness ==
  /\ Did("Add") /\ ~Known
  /\ Len(pre) = 3 /\ Len(Entries) = 3
  /\ nodes.off >= 1

\* C30: once NumThreads goroutines have each returned from one Add of a
\* peer of its own identifier on an empty bucket of capacity ksize, the
\* entries are the peers of the last min(ksize, NumThreads) goroutines that
\* got the mutex, in the order in which they got it.
Min(a, b) == IF a <= b THEN a ELSE b

LastOf(q, n) == SubSeq(q, Len(q) - n + 1, Len(q))

C30_LockOrder ==
  AllDone =>
    /\ Len(lockOrder) = NumThreads
    /\ Len(Entries) = Min(ksize, NumThreads)
    /\ \A j \in 1..Len(Entries) :
         Entries[j] = PeerOf(LastOf(lockOrder, Len(Entries))[j])

\* C30 witness: three calls have returned, the mutex was taken in another
\* order than that of the identifiers, and the first to take it was evicted.
C30_Witness ==
  /\ AllDone /\ ksize = NumThreads - 1
  /\ lockOrder[1] = NumThreads
  /\ Entries[Len(Entries)] # PeerOf(NumThreads)
  /\ NumThreads \notin IdsOf(Entries)

\* C23: a record reports the identifier, the address and the port it was
\* made with, whatever its caller does afterwards.
C23_Immutable ==
  ~rec.none =>
    /\ ID(rec) = made.id
    /\ Address(rec, heap) = made.address
    /\ Port(rec) = made.port

\* The identifier and the port of a record stay those it was made with.
IdAndPortImmutable == ~rec.none => ID(rec) = made.id /\ Port(rec) = made.port

\* C24: NewNode returns an error and no record exactly when the address is
\* nil or empty; otherwise it returns a record whose ID(), Address() and
\* Port() are the arguments.
C24_NewNodeValidates ==
  nop.op = "NewNode" =>
    /\ made.err <=> (made.nil \/ Len(made.address) = 0)
    /\ made.err => rec.none
    /\ ~made.err =>
         /\ ~rec.none
         /\ ID(rec) = made.id
         /\ Address(rec, heap) = made.address
         /\ Port(rec) = made.port

\* C24 witness: NewNode has just returned a record for an address of the
\* greatest length and the greatest port.
C24_Witness ==
  /\ nop.op = "NewNode" /\ ~made.err /\ ~rec.none
  /\ Len(made.address) = MaxAddrLen /\ made.port = 65535

\* C25: NewNodeID returns an error exactly when its input is empty, and two
\* calls with the same non-empty input return the same identifier.
C25_NewNodeIDValidates ==
  idc.op = "NewNodeID" =>
    /\ idc.value[1].err <=> Len(idc.data) = 0
    /\ \A c \in {idc.before[j] : j \in 1..Len(idc.before)} :
         c.data = idc.data => c.value = idc.value

\* C25 witness: NewNodeID has been called twice in a row with the same
\* input of the greatest length and has returned an identifier.
C25_Witness ==
  /\ idc.op = "NewNodeID" /\ Len(idc.data) = MaxDataLen
  /\ ~idc.value[1].err
  /\ idc.before # <<>> /\ idc.before[1].data = idc.data

\* C26: a.XOR(b) = b.XOR(a) and a.XOR(a) is all-zero; n.Distance(m) =
\* m.Distance(n), n.Distance(n) is all-zero, and Distance is the same for
\* all records with the identifiers of n and m.
C26_DistanceSymmetric ==
  /\ idc.op = "XOR" =>
       /\ idc.value = <<XOR(idc.b, idc.a)>>
       /\ idc.a = idc.b => idc.value = <<Zero>>
  /\ idc.op = "Distance" =>
       /\ idc.value = <<Distance(idc.m, idc.n)>>
       /\ idc.n = idc.m => idc.value = <<Zero>>
       /\ \A e, f \in Endpoints :
            <<Distance([idc.n EXCEPT !.address = e.address, !.port = e.port],
                       [idc.m EXCEPT !.address = f.address, !.port = f.port])>>
              = idc.value

\* C26 witness: Distance has been called on two records whose identifiers
\* differ in one byte only and whose endpoints differ.
C26_Witness ==
  /\ idc.op = "Distance"
  /\ idc.n.id[1] = idc.m.id[1] /\ idc.n.id[IdLen] # idc.m.id[IdLen]
  /\ idc.n.address # idc.m.address
  /\ idc.value # <<Zero>>

\* C27: a.XOR(b) is all-zero only if a.Equals(b), Equals is true exactly
\* then, and for the identifier a and every value d (here: b) exactly one
\* identifier is at distance d from a.
C27_Unidirectional ==
  /\ idc.op = "XOR" =>
       /\ idc.value = <<Zero>> => Equals(idc.a, idc.b)
       /\ Cardinality({c \in NodeIDs : XOR(idc.a, c) = idc.b}) = 1
       /\ \A c \in NodeIDs : <<XOR(idc.a, c)>> = idc.value => c = idc.b
  /\ idc.op = "Equals" =>
       idc.value = <<XOR(idc.a, idc.b) = Zero>>

\* C27 witness: XOR has been called on two identifiers that agree in their
\* first byte and differ in their last.
C27_Witness ==
  /\ idc.op = "XOR"
  /\ idc.a[1] = idc.b[1] /\ idc.a[IdLen] # idc.b[IdLen]
  /\ idc.value # <<Zero>>

\* A distance read as an unsigned big-endian integer: the first byte is the
\* most significant.
RECURSIVE AsInt(_)
AsInt(d) ==
  IF Len(d) = 0 THEN 0
  ELSE d[Len(d)] + (2^ByteBits) * AsInt(SubSeq(d, 1, Len(d) - 1))

\* C31: for identifiers a, b, c, a.XOR(c) <= a.XOR(b) + b.XOR(c) as
\* unsigned big-endian integers, and a.XOR(c) is the bitwise XOR of a.XOR(b)
\* and b.XOR(c).
C31_Triangle ==
  idc.op = "XOR3" =>
    /\ AsInt(idc.ac) <= AsInt(idc.ab) + AsInt(idc.bc)
    /\ idc.ac = XOR(idc.ab, idc.bc)

\* C31 witness: three pairwise different identifiers whose two legs share a
\* set bit, so that the direct distance is strictly below their sum.
C31_Witness ==
  /\ idc.op = "XOR3"
  /\ idc.a # idc.b /\ idc.b # idc.c /\ idc.a # idc.c
  /\ AsInt(idc.ac) < AsInt(idc.ab) + AsInt(idc.bc)
  /\ AsInt(idc.ab) < AsInt(idc.bc)

\* C32: Size() is the number of entries Nodes() returns at that moment, at
\* the largest capacities KSize can hold as well: the conversion to uint8
\* never reduces it modulo 256.
C32_SizeExact ==
  /\ Size = Len(Entries)
  /\ last.op = "Size" => ret = <<Len(Entries)>>

\* C32 witness: Size() has returned 255 on a bucket of capacity 255 that
\* has evicted an entry.
C32_Witness ==
  /\ last.op = "Size" /\ ret = <<MaxUint8>>
  /\ ksize = MaxUint8 /\ calls > ksize

====
